---- MODULE Spec2Model ----
(***************************************************************************)
(* Listings caches of fsspec/dircache.py: DisabledListingsCache,           *)
(* MemoryListingsCache, FileListingsCache and create_listings_cache.       *)
(*                                                                         *)
(* A Python dict is a sequence of <<key, value>> pairs in insertion order  *)
(* (the order list(dict) and iteration use).  An optional argument is      *)
(* None (the empty sequence) or <<x>>.  A listing is a sequence of         *)
(* entries.                                                                *)
(*                                                                         *)
(* Spec      : one cache, every call atomic, with history variables.       *)
(* SpecPair  : a source cache and the cache rebuilt from its __reduce__.   *)
(* SpecTwin  : a cleared cache and a newly constructed one, same calls.    *)
(* SpecRetry : calls of the file backend while its store is contended.     *)
(* SpecRace  : two callers of one memory cache, statement by statement.    *)
(***************************************************************************)
EXTENDS Integers, Sequences, FiniteSets

\* ---------------------------------------------------------------- bounds
NumKeys == 3
MaxEntries == 1
MaxPathsBound == 1
MaxExpiry == 1
MaxTicks == 2

Keys == 1..NumKeys
\* Listing values: the empty listing and the listings <<1>>, <<1, 1>>, ...
RECURSIVE Listing(_)
Listing(n) == IF n = 0 THEN <<>> ELSE Append(Listing(n - 1), 1)
Values == {Listing(n) : n \in 0..MaxEntries}

None == <<>>
Some(x) == <<x>>
\* Python truthiness of an optional int: None and 0 are falsy.
Truthy(o) == o # None /\ o[1] # 0

\* time.time() at construction; later than every expiry duration, as a
\* wall clock (seconds since 1970) is.
Epoch == MaxExpiry + 1
MaxTime == Epoch + MaxTicks

Range(s) == {s[i] : i \in DOMAIN s}

\* ------------------------------------------------------------ Python dict
DictHas(d, k) == \E i \in DOMAIN d : d[i][1] = k
DictGet(d, k) == d[CHOOSE i \in DOMAIN d : d[i][1] = k][2]
DictKeys(d) == [i \in DOMAIN d |-> d[i][1]]
\* d[k] = v : an existing key keeps its position, a new key goes last
DictSet(d, k, v) ==
    IF DictHas(d, k)
    THEN [i \in DOMAIN d |-> IF d[i][1] = k THEN <<k, v>> ELSE d[i]]
    ELSE Append(d, <<k, v>>)
\* d.pop(k, None) and, on a present key, del d[k]
DictPop(d, k) == SelectSeq(d, LAMBDA e : e[1] # k)

\* self._times.get(item, 0)
TimesGet(t, k) == IF k \in DOMAIN t THEN t[k] ELSE 0
TimesSet(t, k, n) == [j \in (DOMAIN t) \cup {k} |-> IF j = k THEN n ELSE t[j]]

VARIABLES
    mode,          \* the cache_type argument of create_listings_cache
    error,         \* the exception create_listings_cache raised, or "none"
    cache_type,    \* the backend create_listings_cache constructed
    expiry_time,   \* self._expiry_time : None or <<seconds>>
    max_paths,     \* self._max_paths   : None or <<count>> (memory backend)
    _cache,        \* self._cache : dict key -> listing
    _times,        \* self._times : dict key -> time of the last write
    _q,            \* keys held by the lru_cache self._q, least recent first
    now,           \* time.time()
    disk,          \* rows of the diskcache.Cache of a FileListingsCache
    dret,          \* outcome of the last call on a DisabledListingsCache
    directory,     \* self._directory of a FileListingsCache, a path
    \* a second cache object, built from the first one (SpecPair)
    other,         \* its fields, or NoObject
    disk2,         \* rows of the store at its directory, when that differs
    link,          \* "none", "rebuilt" (from __reduce__) or "twin"
    \* a call on a FileListingsCache while the store is contended (SpecRetry)
    call,          \* the call in flight and where it stands, or Idle
    busy,          \* another process holds the lock of the store
    \* two callers of one MemoryListingsCache (SpecRace)
    threads,       \* per caller: its call, the statement it stands at, its result
    start,         \* the fields when the two calls were made
    atomic,        \* the callers hold one lock per cache around every call
    setups,        \* sets made before the two calls
    \* history variables (not fields of the object)
    hist,          \* per key: what last happened to it and the last write
    touched,       \* keys by last touch (set or successful read), oldest first
    setRun         \* keys set so far while only distinct keys were set

cfgVars == <<mode, error, cache_type, expiry_time, max_paths, directory>>
pairVars == <<other, disk2, link>>
retryVars == <<call, busy>>
raceVars == <<threads, start, atomic, setups>>
extVars == <<pairVars, retryVars, raceVars>>
memVars == <<_cache, _times, _q>>
histVars == <<hist, touched, setRun>>
vars == <<cfgVars, memVars, now, disk, dret, histVars, extVars>>

\* ------------------------------------------------- MemoryListingsCache

\* (variant: a hit does not move the key, first-in first-out)
QCallNoPromote(s, key) ==
    IF key \in Range(s.q)
    THEN s
    ELSE [s EXCEPT !.cache = DictPop(s.cache, key),
                   !.q = IF Len(s.q) >= max_paths[1] + 1
                         THEN Append(Tail(s.q), key)
                         ELSE Append(s.q, key)]

\* self._q(key): functools.lru_cache(max_paths + 1) around
\* lambda key: self._cache.pop(key, None).  A hit moves key to the most
\* recent position and calls nothing; a miss calls the lambda (popping key
\* from the value store), then records key, dropping the least recent key
\* when max_paths + 1 keys are already held.
QCall(s, key) ==
    IF key \in Range(s.q)
    THEN [s EXCEPT !.q = Append(SelectSeq(s.q, LAMBDA x : x # key), key)]
    ELSE [s EXCEPT !.cache = DictPop(s.cache, key),
                   !.q = IF Len(s.q) >= max_paths[1] + 1
                         THEN Append(Tail(s.q), key)
                         ELSE Append(s.q, key)]

\* time.time() - stamp > expiry_time, written as in the source
Expired(stamp, t) == stamp - t < -(expiry_time[1])

\* (variant: a successful read restamps the entry, sliding expiry)
GetItemRefresh(s, t, item) ==
    LET dead == expiry_time # None /\ Expired(TimesGet(s.times, item), t)
        s1 == IF dead THEN [s EXCEPT !.cache = DictPop(s.cache, item)] ELSE s
        s2 == IF Truthy(max_paths) THEN QCall(s1, item) ELSE s1
    IN  IF DictHas(s2.cache, item)
        THEN [s |-> IF expiry_time # None
                    THEN [s2 EXCEPT !.times = TimesSet(s2.times, item, t)]
                    ELSE s2,
              raised |-> FALSE, val |-> DictGet(s2.cache, item)]
        ELSE [s |-> IF dead /\ ~DictHas(s.cache, item) THEN s ELSE s2,
              raised |-> TRUE, val |-> <<>>]

\* MemoryListingsCache.__getitem__ on s = [cache, times, q] at time t:
\* the state after the call, whether KeyError was raised, the value returned
GetItem(s, t, item) ==
    IF expiry_time # None /\ Expired(TimesGet(s.times, item), t)
          /\ ~DictHas(s.cache, item)
    THEN [s |-> s, raised |-> TRUE, val |-> <<>>]  \* del raises KeyError
    ELSE LET s1 == IF expiry_time # None /\ Expired(TimesGet(s.times, item), t)
                   THEN [s EXCEPT !.cache = DictPop(s.cache, item)]
                   ELSE s
             s2 == IF Truthy(max_paths) THEN QCall(s1, item) ELSE s1
         IN  IF DictHas(s2.cache, item)
             THEN [s |-> s2, raised |-> FALSE, val |-> DictGet(s2.cache, item)]
             ELSE [s |-> s2, raised |-> TRUE, val |-> <<>>]

\* (variant: the value is stored before the tracker is asked, whose miss
\* pops it again)
SetItemStoreFirst(s, t, key, value) ==
    LET s1 == [s EXCEPT !.cache = DictSet(s.cache, key, value)]
        s2 == IF Truthy(max_paths) THEN QCall(s1, key) ELSE s1
    IN  IF expiry_time # None
        THEN [s2 EXCEPT !.times = TimesSet(s2.times, key, t)]
        ELSE s2

\* MemoryListingsCache.__setitem__
SetItem(s, t, key, value) ==
    LET s1 == IF Truthy(max_paths) THEN QCall(s, key) ELSE s
        s2 == [s1 EXCEPT !.cache = DictSet(s1.cache, key, value)]
    IN  IF expiry_time # None
        THEN [s2 EXCEPT !.times = TimesSet(s2.times, key, t)]
        ELSE s2

\* (variant: self._cache.pop(key, None), which never raises)
DelItemSilent(s, key) ==
    [s |-> [s EXCEPT !.cache = DictPop(s.cache, key)], raised |-> FALSE]

\* MemoryListingsCache.__delitem__
DelItem(s, key) ==
    IF DictHas(s.cache, key)
    THEN [s |-> [s EXCEPT !.cache = DictPop(s.cache, key)], raised |-> FALSE]
    ELSE [s |-> s, raised |-> TRUE]

\* (variant: the timestamps are cleared instead of the values)
ClearTimes(s) == [s EXCEPT !.times = <<>>]

\* MemoryListingsCache.clear
ClearCache(s) == [s EXCEPT !.cache = <<>>]

\* MemoryListingsCache.__len__
LenCache(s) == Len(s.cache)

\* The object's fields as one record
Self == [cache |-> _cache, times |-> _times, q |-> _q]

\* History bookkeeping for one call that took the tracker from q1 to q2:
\* a key whose last event is its set and that the tracker drops is evicted.
Dropped(h, q1, q2) ==
    [k \in Keys |->
        IF h[k].st = "set" /\ k \in Range(q1) /\ k \notin Range(q2)
        THEN [st |-> "evicted", val |-> <<>>, t0 |-> 0]
        ELSE h[k]]
Gone(h, k, why) ==
    [h EXCEPT ![k] = IF h[k].st = "set"
                     THEN [st |-> why, val |-> <<>>, t0 |-> 0]
                     ELSE h[k]]
\* (the recency history is kept for capacity-bounded caches without expiry)
Touch(order, k) ==
    IF Truthy(max_paths) /\ expiry_time = None
    THEN Append(SelectSeq(order, LAMBDA x : x # k), k)
    ELSE order

\* MemoryListingsCache.__contains__: __getitem__ with KeyError mapped to False
Contains(s, t, k) ==
    LET r == GetItem(s, t, k) IN [s |-> r.s, ret |-> ~r.raised]

\* MemoryListingsCache.__iter__, consumed to the end: entries = list(_cache),
\* then `k in self` for each entry in order.  Returns the final fields,
\* the keys yielded and the history.
RECURSIVE IterFrom(_, _, _, _, _, _)
IterFrom(entries, i, s, h, order, out) ==
    IF i > Len(entries)
    THEN [s |-> s, hist |-> h, touched |-> order, out |-> out]
    ELSE LET r == Contains(s, now, entries[i])
         IN  IterFrom(entries, i + 1, r.s, Dropped(h, s.q, r.s.q),
                      IF r.ret THEN Touch(order, entries[i]) ELSE order,
                      IF r.ret THEN Append(out, entries[i]) ELSE out)
Iterate(s) == IterFrom(DictKeys(s.cache), 1, s, hist, touched, <<>>)

NoHistory == [k \in Keys |-> [st |-> "never", val |-> <<>>, t0 |-> 0]]
NoCall ==
    [op |-> "new", key |-> 0, raised |-> FALSE, found |-> FALSE, keys |-> <<>>, n |-> 0]

\* a FileListingsCache keeps its rows under
\* Path(directory) / "dircache" / str(expiry_time); the last component is
\* written as the expiry itself
DirOf(dir, expiry) == dir \o <<"dircache", expiry>>
\* the directory argument (or platformdirs' user cache directory)
UserDir == <<"cachedir">>
\* the memory and disabled backends have no directory
NoDir == <<>>

\* MemoryListingsCache.__init__
MemInit ==
    /\ cache_type = "MEMORY"
    /\ expiry_time \in {None} \cup {Some(t) : t \in 1..MaxExpiry}
    /\ max_paths \in {None} \cup {Some(n) : n \in 1..MaxPathsBound}
    /\ directory = NoDir
    /\ _cache = <<>>
    /\ _times = <<>>
    /\ _q = <<>>

Install(s) ==
    /\ _cache' = s.cache
    /\ _times' = s.times
    /\ _q' = s.q

Tainted == <<0>>

\* cache[k] = v
SetAct(k, v) ==
    LET s == SetItem(Self, now, k, v)
    IN  /\ cache_type = "MEMORY"
        /\ Install(s)
        /\ hist' = [Dropped(hist, _q, s.q) EXCEPT
                       ![k] = [st |-> "set", val |-> v, t0 |-> now]]
        /\ touched' = Touch(touched, k)
        /\ setRun' = IF setRun # Tainted /\ k \notin Range(setRun)
                     THEN Append(setRun, k) ELSE Tainted
        /\ UNCHANGED <<cfgVars, extVars, now, disk, dret>>

\* cache[k]
GetAct(k) ==
    LET r == GetItem(Self, now, k)
    IN  /\ cache_type = "MEMORY"
        /\ Install(r.s)
        /\ hist' = Dropped(hist, _q, r.s.q)
        /\ touched' = IF r.raised THEN touched ELSE Touch(touched, k)
        /\ setRun' = Tainted
        /\ UNCHANGED <<cfgVars, extVars, now, disk, dret>>

\* k in cache
ContainsAct(k) ==
    LET r == Contains(Self, now, k)
    IN  /\ cache_type = "MEMORY"
        /\ Install(r.s)
        /\ hist' = Dropped(hist, _q, r.s.q)
        /\ touched' = IF r.ret THEN Touch(touched, k) ELSE touched
        /\ setRun' = Tainted
        /\ UNCHANGED <<cfgVars, extVars, now, disk, dret>>

\* del cache[k]
DelAct(k) ==
    LET r == DelItem(Self, k)
    IN  /\ cache_type = "MEMORY"
        /\ Install(r.s)
        /\ hist' = IF r.raised THEN hist ELSE Gone(hist, k, "deleted")
        /\ setRun' = Tainted
        /\ UNCHANGED <<cfgVars, extVars, now, disk, dret, touched>>

\* cache.clear()
ClearAct ==
    /\ cache_type = "MEMORY"
    /\ Install(ClearCache(Self))
    /\ hist' = [k \in Keys |-> Gone(hist, k, "cleared")[k]]
    /\ setRun' = Tainted
    /\ UNCHANGED <<cfgVars, extVars, now, disk, dret, touched>>

\* len(cache)
LenAct ==
    /\ cache_type = "MEMORY"
    /\ LenCache(Self) \in 0..NumKeys
    /\ setRun' = Tainted
    /\ UNCHANGED <<cfgVars, extVars, memVars, now, disk, dret, hist, touched>>

\* list(cache)
IterAct ==
    LET r == Iterate(Self)
    IN  /\ cache_type = "MEMORY"
        /\ Install(r.s)
        /\ hist' = r.hist
        /\ touched' = r.touched
        /\ setRun' = Tainted
        /\ UNCHANGED <<cfgVars, extVars, now, disk, dret>>

\* The wall clock advances between calls.  time.time() is read, by the
\* memory backend and by the store of the file backend, only when an expiry
\* duration is configured.
Tick ==
    /\ expiry_time # None
    /\ now < MaxTime
    /\ now' = now + 1
    /\ UNCHANGED <<cfgVars, extVars, memVars, disk, dret, histVars>>

\* ----------------------------------------------- DisabledListingsCache
\* The class has no fields: each method is its outcome.
DisabledGetItem(item) == [NoCall EXCEPT !.op = "get", !.key = item, !.raised = TRUE]
DisabledSetItem(key, value) == [NoCall EXCEPT !.op = "set", !.key = key]
\* (variant: deleting raises KeyError, as on the other backends)
DisabledDelItemRaises(key) ==
    [NoCall EXCEPT !.op = "del", !.key = key, !.raised = TRUE]
DisabledDelItem(key) == [NoCall EXCEPT !.op = "del", !.key = key]
DisabledIter == [NoCall EXCEPT !.op = "iter", !.keys = <<>>]
DisabledLen == [NoCall EXCEPT !.op = "len", !.n = 0]
DisabledClear == [NoCall EXCEPT !.op = "clear"]
DisabledContains(item) ==
    [NoCall EXCEPT !.op = "contains", !.key = item, !.found = FALSE]

\* DisabledListingsCache.__init__ : the arguments are dropped
DisabledInit ==
    /\ cache_type = "DISABLED"
    /\ expiry_time = None
    /\ max_paths = None
    /\ directory = NoDir
    /\ _cache = <<>>
    /\ _times = <<>>
    /\ _q = <<>>

DisabledFrame == UNCHANGED <<cfgVars, extVars, memVars, now, disk, touched, setRun>>

DisabledSetAct(k, v) ==
    /\ cache_type = "DISABLED"
    /\ dret' = DisabledSetItem(k, v)
    /\ hist' = [hist EXCEPT ![k] = [st |-> "set", val |-> v, t0 |-> now]]
    /\ DisabledFrame

DisabledGetAct(k) ==
    /\ cache_type = "DISABLED"
    /\ dret' = DisabledGetItem(k)
    /\ UNCHANGED hist
    /\ DisabledFrame

DisabledContainsAct(k) ==
    /\ cache_type = "DISABLED"
    /\ dret' = DisabledContains(k)
    /\ UNCHANGED hist
    /\ DisabledFrame

DisabledDelAct(k) ==
    /\ cache_type = "DISABLED"
    /\ dret' = DisabledDelItem(k)
    /\ hist' = IF dret'.raised THEN hist ELSE Gone(hist, k, "deleted")
    /\ DisabledFrame

DisabledClearAct ==
    /\ cache_type = "DISABLED"
    /\ dret' = DisabledClear
    /\ hist' = [k \in Keys |-> Gone(hist, k, "cleared")[k]]
    /\ DisabledFrame

DisabledLenAct ==
    /\ cache_type = "DISABLED"
    /\ dret' = DisabledLen
    /\ UNCHANGED hist
    /\ DisabledFrame

DisabledIterAct ==
    /\ cache_type = "DISABLED"
    /\ dret' = DisabledIter
    /\ UNCHANGED hist
    /\ DisabledFrame

\* --------------------------------------------------- FileListingsCache
\* self._cache is a diskcache.Cache, a library outside this repository.  Its
\* rows are modelled as a function key -> [val, exp] (exp: None or the
\* <<time>> the row expires at) with the behaviour the calls of the source
\* rely on: get returns the default, None, for a key that is absent or
\* expired (the comment at __contains__ says so), set stores the value with
\* an expiry `expire` seconds ahead, del raises KeyError on a key it cannot
\* find, iterkeys yields every stored key.
RowLive(d, t, key) ==
    key \in DOMAIN d /\ (d[key].exp = None \/ d[key].exp[1] > t)
\* Cache.get(key, default=None): a Python value, None or a listing
StoreGet(d, t, key) ==
    IF RowLive(d, t, key)
    THEN [isNone |-> FALSE, val |-> d[key].val]
    ELSE [isNone |-> TRUE, val |-> <<>>]
\* Cache.set(key, value, expire)
StoreSet(d, t, key, value, expire) ==
    LET row == [val |-> value,
                exp |-> IF expire = None THEN None ELSE Some(t + expire[1])]
    IN  [j \in (DOMAIN d) \cup {key} |-> IF j = key THEN row ELSE d[j]]
StoreRemove(d, gone) == [j \in (DOMAIN d) \ gone |-> d[j]]
\* the store may purge the rows already expired when it writes
StorePurge(d, t) == StoreRemove(d, {j \in DOMAIN d : ~RowLive(d, t, j)})

\* bool(value) of a Python value: None and the empty listing are falsy
PyBool(v) == ~v.isNone /\ v.val # <<>>

\* FileListingsCache.__getitem__ : returns whatever Cache.get returns
FileGetItem(d, t, item) ==
    LET v == StoreGet(d, t, item)
    IN  [raised |-> FALSE, isNone |-> v.isNone, val |-> v.val]

\* FileListingsCache.__contains__
FileContains(d, t, item) == IF PyBool(StoreGet(d, t, item)) THEN TRUE ELSE FALSE

\* FileListingsCache.__setitem__
FileSetItem(d, t, key, value) == StoreSet(d, t, key, value, expiry_time)

\* FileListingsCache.__delitem__
FileDelItem(d, t, key) ==
    IF RowLive(d, t, key)
    THEN [d |-> StoreRemove(d, {key}), raised |-> FALSE]
    ELSE [d |-> d, raised |-> TRUE]

\* FileListingsCache.__iter__ : the keys yielded
FileIter(d, t) == {k \in DOMAIN d : FileContains(d, t, k)}

\* FileListingsCache.__len__
FileLen(d) == Cardinality(DOMAIN d)

\* FileListingsCache.clear
FileClear(d) == <<>>

\* FileListingsCache.__init__ on a directory that holds no rows yet
FileInit ==
    /\ cache_type = "FILE"
    /\ expiry_time \in {None} \cup {Some(t) : t \in 1..MaxExpiry}
    /\ max_paths = None
    /\ directory = DirOf(UserDir, expiry_time)
    /\ _cache = <<>>
    /\ _times = <<>>
    /\ _q = <<>>

FileFrame == UNCHANGED <<cfgVars, extVars, memVars, now, dret, touched, setRun>>

FileSetAct(k, v) ==
    /\ cache_type = "FILE"
    /\ \E purge \in BOOLEAN :
          disk' = FileSetItem(IF purge THEN StorePurge(disk, now) ELSE disk,
                              now, k, v)
    /\ hist' = [hist EXCEPT ![k] = [st |-> "set", val |-> v, t0 |-> now]]
    /\ FileFrame

FileGetAct(k) ==
    /\ cache_type = "FILE"
    /\ FileGetItem(disk, now, k).raised \in BOOLEAN
    /\ UNCHANGED <<disk, hist>>
    /\ FileFrame

FileContainsAct(k) ==
    /\ cache_type = "FILE"
    /\ FileContains(disk, now, k) \in BOOLEAN
    /\ UNCHANGED <<disk, hist>>
    /\ FileFrame

FileDelAct(k) ==
    LET r == FileDelItem(disk, now, k)
    IN  /\ cache_type = "FILE"
        /\ disk' = r.d
        /\ hist' = IF r.raised THEN hist ELSE Gone(hist, k, "deleted")
        /\ FileFrame

FileClearAct ==
    /\ cache_type = "FILE"
    /\ disk' = FileClear(disk)
    /\ hist' = [k \in Keys |-> Gone(hist, k, "cleared")[k]]
    /\ FileFrame

FileLenAct ==
    /\ cache_type = "FILE"
    /\ FileLen(disk) \in 0..NumKeys
    /\ UNCHANGED <<disk, hist>>
    /\ FileFrame

FileIterAct ==
    /\ cache_type = "FILE"
    /\ FileIter(disk, now) \subseteq Keys
    /\ UNCHANGED <<disk, hist>>
    /\ FileFrame

\* ------------------------------------------------------- specification
\* create_listings_cache(cache_type, expiry_time, **kwargs) at time Epoch
CacheTypes == {"DISABLED", "MEMORY", "FILE"}
\* arguments that are no member of CacheType stand as "OTHER"
Modes == CacheTypes \cup {"OTHER"}
\* cache_map[cache_type] : a dict lookup, KeyError on a key it lacks
CacheMap(m) ==
    IF m \in CacheTypes
    THEN [raised |-> "none", cls |-> m]
    ELSE [raised |-> "KeyError", cls |-> "NONE"]
\* the lookup raised: no object exists
NoCacheInit ==
    /\ cache_type = "NONE"
    /\ expiry_time = None
    /\ max_paths = None
    /\ directory = NoDir
    /\ _cache = <<>>
    /\ _times = <<>>
    /\ _q = <<>>
NoObject == <<>>
NoPair ==
    /\ other = NoObject
    /\ disk2 = <<>>
    /\ link = "none"
Idle == [op |-> "idle", key |-> 0, val |-> <<>>, retry |-> FALSE, at |-> "idle"]
NoRetry ==
    /\ call = Idle
    /\ busy = FALSE
Callers == {1, 2}
NoThread ==
    [op |-> "none", key |-> 0, val |-> <<>>, pc |-> "idle",
     raised |-> FALSE, ret |-> <<>>]
NoFields == [cache |-> <<>>, times |-> <<>>, q |-> <<>>]
NoRace ==
    /\ threads = [c \in Callers |-> NoThread]
    /\ start = NoFields
    /\ setups = 0

Init ==
    /\ mode \in Modes
    /\ error = CacheMap(mode).raised
    /\ cache_type = CacheMap(mode).cls
    /\ DisabledInit \/ MemInit \/ FileInit \/ NoCacheInit
    /\ NoPair
    /\ NoRetry
    /\ NoRace
    /\ atomic = FALSE
    /\ now = Epoch
    /\ disk = <<>>
    /\ dret = NoCall
    /\ hist = NoHistory
    /\ touched = <<>>
    /\ setRun = <<>>

Next ==
    \/ \E k \in Keys, v \in Values : SetAct(k, v)
    \/ \E k \in Keys : GetAct(k)
    \/ \E k \in Keys : ContainsAct(k)
    \/ \E k \in Keys : DelAct(k)
    \/ ClearAct
    \/ LenAct
    \/ IterAct
    \/ \E k \in Keys, v \in Values : DisabledSetAct(k, v)
    \/ \E k \in Keys : DisabledGetAct(k)
    \/ \E k \in Keys : DisabledContainsAct(k)
    \/ \E k \in Keys : DisabledDelAct(k)
    \/ DisabledClearAct
    \/ DisabledLenAct
    \/ DisabledIterAct
    \/ \E k \in Keys, v \in Values : FileSetAct(k, v)
    \/ \E k \in Keys : FileGetAct(k)
    \/ \E k \in Keys : FileContainsAct(k)
    \/ \E k \in Keys : FileDelAct(k)
    \/ FileClearAct
    \/ FileLenAct
    \/ FileIterAct
    \/ Tick

Spec == Init /\ [][Next]_vars

\* ================================================================ claims
\* What a caller would observe on the memory backend in the current state
Get(k) == GetItem(Self, now, k)
Has(k) == Contains(Self, now, k).ret
Bounded == cache_type = "MEMORY" /\ Truthy(max_paths)
\* the last write of k is older than the expiry duration
Stale(k) == expiry_time # None /\ now - hist[k].t0 > expiry_time[1]
Pos(order, k) == CHOOSE i \in DOMAIN order : order[i] = k

\* C1: memory backend, any configuration: a key written by set(k, v) and not
\* since expired, evicted by the tracker, deleted or cleared reads back v
\* (the value of the last set) and is contained, also when the tracker is
\* full; the value store holds at most one entry per key.
C1_ReadYourWrite ==
    cache_type = "MEMORY" =>
        /\ \A k \in Keys :
              hist[k].st = "set" /\ ~Stale(k) =>
                  /\ ~Get(k).raised
                  /\ Get(k).val = hist[k].val
                  /\ Has(k)
        /\ \A k \in Keys :
              Cardinality({i \in DOMAIN _cache : _cache[i][1] = k}) <= 1
\* a key just written (most recent in a full tracker that has already
\* evicted another key) reads back its value
C1_Witness ==
    /\ Bounded
    /\ Len(_q) = max_paths[1] + 1
    /\ \E k, e \in Keys :
          /\ hist[k].st = "set" /\ _q[Len(_q)] = k
          /\ hist[k].val # <<>> /\ Get(k).val = hist[k].val
          /\ hist[e].st = "evicted"

\* C2: memory backend with expiry T: a key last written at t0 fails get and
\* contains at every time t with t - t0 > T, and reads back its value at
\* every t with t - t0 <= T; reads in between do not move t0.
C2_Expiry ==
    cache_type = "MEMORY" /\ expiry_time # None =>
        \A k \in Keys :
            hist[k].st = "set" =>
                IF now - hist[k].t0 > expiry_time[1]
                THEN Get(k).raised /\ ~Has(k)
                ELSE ~Get(k).raised /\ Get(k).val = hist[k].val
\* an entry older than T that the value store still holds
C2_Witness ==
    /\ cache_type = "MEMORY" /\ expiry_time # None
    /\ \E k \in Keys :
          /\ hist[k].st = "set" /\ now - hist[k].t0 > expiry_time[1]
          /\ DictHas(_cache, k)
          /\ Get(k).raised

\* C3: memory backend with max_paths = N: at most N keys are live (would be
\* reported by contains) in every reachable state.
C3_LiveAtMostMaxPaths ==
    Bounded => Cardinality({k \in Keys : Has(k)}) <= max_paths[1]

\* C4: memory backend with max_paths = N, from the empty cache: after N + 1
\* distinct keys were set and nothing else was called, the first key is not
\* contained and the other N are.
C4_FirstKeyEvicted ==
    Bounded /\ expiry_time = None /\ setRun # Tainted
            /\ Len(setRun) = max_paths[1] + 1 =>
        /\ ~Has(setRun[1])
        /\ \A i \in 2..Len(setRun) : Has(setRun[i])

C6_Delete ==
    cache_type = "MEMORY" =>
        \A k \in Keys :
            /\ LET r == DelItem(Self, k)
               IN  IF ~DictHas(_cache, k)
                   THEN r.raised /\ r.s = Self
                   ELSE /\ ~r.raised
                        /\ GetItem(r.s, now, k).raised
                        /\ ~Contains(r.s, now, k).ret
                        /\ \A j \in Keys \ {k} :
                              /\ GetItem(r.s, now, j).raised = Get(j).raised
                              /\ GetItem(r.s, now, j).val = Get(j).val
            /\ hist[k].st = "deleted" => Get(k).raised /\ ~Has(k)
\* a deleted key is unreadable while another key still reads
C6_Witness ==
    /\ cache_type = "MEMORY"
    /\ \E k, j \in Keys :
          /\ hist[k].st = "deleted" /\ ~DictHas(_cache, k)
          /\ Get(k).raised /\ ~Has(k)
          /\ hist[j].st = "set" /\ Has(j)

\* C7: memory backend: in the state clear() leaves, from any reachable
\* state, the length is 0 and every key fails get and contains.
C7_Clear ==
    cache_type = "MEMORY" =>
        LET s == ClearCache(Self)
        IN  /\ LenCache(s) = 0
            /\ \A k \in Keys :
                  GetItem(s, now, k).raised /\ ~Contains(s, now, k).ret
\* a cleared cache that held a tracker-evicted entry and a written one
C7_Witness ==
    /\ Bounded
    /\ LenCache(Self) = 0
    /\ \E k, e \in Keys : hist[k].st = "cleared" /\ hist[e].st = "evicted"
    /\ \A k \in Keys : Get(k).raised /\ ~Has(k)

\* C8: disabled backend: after any calls of set, delete and clear, get
\* raises KeyError and contains is false for every key, also one that was
\* set; iteration yields nothing and the length is 0; set, delete and
\* clear do not raise.
C8_Disabled ==
    cache_type = "DISABLED" =>
        /\ dret.op = "get" => dret.raised
        /\ dret.op = "contains" => ~dret.raised /\ ~dret.found
        /\ dret.op = "iter" => ~dret.raised /\ dret.keys = <<>>
        /\ dret.op = "len" => ~dret.raised /\ dret.n = 0
        /\ dret.op \in {"set", "del", "clear"} => ~dret.raised
\* a get of a key that was set fails
C8_Witness ==
    /\ cache_type = "DISABLED"
    /\ dret.op = "get" /\ dret.raised
    /\ hist[dret.key].st = "set"

\* What a caller would observe on the file backend in the current state
FileGet(k) == FileGetItem(disk, now, k)
FileHas(k) == FileContains(disk, now, k)
\* the store has expired the last write of k
FileStale(k) == expiry_time # None /\ now >= hist[k].t0 + expiry_time[1]

\* C9: file backend: for a key never set, deleted, cleared or expired by
\* the store, get raises KeyError and contains is false.
C9_FileMiss ==
    cache_type = "FILE" =>
        \A k \in Keys :
            hist[k].st \in {"never", "deleted", "cleared"} \/ FileStale(k) =>
                FileGet(k).raised /\ ~FileHas(k)

\* C10: file backend: a key set to any listing, the empty one included, and
\* not yet expired by the store reads back that listing, is contained and
\* is yielded by iteration.
C10_FileReadYourWrite ==
    cache_type = "FILE" =>
        \A k \in Keys :
            hist[k].st = "set" /\ ~FileStale(k) =>
                /\ ~FileGet(k).raised /\ ~FileGet(k).isNone
                /\ FileGet(k).val = hist[k].val
                /\ FileHas(k)
                /\ k \in FileIter(disk, now)

\* What a caller would observe of key j after a call left the fields s
Seen(s, j) ==
    LET r == GetItem(s, now, j) IN [raised |-> r.raised, val |-> r.val]

\* C15: memory backend with max_paths: a set that makes the tracker drop
\* its least recent key also removes that key from the value store, so the
\* value store holds only keys the tracker holds and len() counts no key
\* the tracker has dropped.
C15_StoreWithinTracker ==
    Bounded =>
        /\ \A k \in Keys, v \in Values :
              LET s2 == SetItem(Self, now, k, v)
              IN  \A j \in Range(_q) \ Range(s2.q) : ~DictHas(s2.cache, j)
        /\ \A k \in Keys : DictHas(_cache, k) => k \in Range(_q)
        /\ LenCache(Self) = Cardinality(Range(DictKeys(_cache)) \cap Range(_q))

\* C16: memory backend with expiry: after every operation the timestamp
\* map holds only keys of the value store; a get that finds its key
\* expired removes the value and the timestamp, and clear() removes every
\* timestamp.
C16_TimesWithinStore ==
    cache_type = "MEMORY" /\ expiry_time # None =>
        /\ DOMAIN _times \subseteq Range(DictKeys(_cache))
        /\ \A k \in Keys :
              DictHas(_cache, k) /\ Expired(TimesGet(_times, k), now) =>
                  /\ ~DictHas(Get(k).s.cache, k)
                  /\ k \notin DOMAIN Get(k).s.times
        /\ DOMAIN ClearCache(Self).times = {}

\* C17: memory backend with max_paths: a get or contains of k that fails
\* (k absent or expired) leaves the tracker as it was, and every other key
\* reads afterwards as it read before.
C17_FailedReadFrame ==
    Bounded =>
        \A k \in Keys :
            /\ Get(k).raised =>
                  /\ Get(k).s.q = _q
                  /\ \A j \in Keys \ {k} : Seen(Get(k).s, j) = Seen(Self, j)
            /\ ~Has(k) =>
                  /\ Contains(Self, now, k).s.q = _q
                  /\ \A j \in Keys \ {k} :
                        Seen(Contains(Self, now, k).s, j) = Seen(Self, j)

\* C18: memory backend, any configuration: an iteration consumed to the
\* end with the clock standing still yields exactly the keys that are
\* contained in the state it started from, and every key contained then
\* is still contained when it ends.
C18_IterationIsContains ==
    cache_type = "MEMORY" =>
        /\ Range(Iterate(Self).out) = {k \in Keys : Has(k)}
        /\ \A k \in Keys :
              Has(k) => Contains(Iterate(Self).s, now, k).ret

\* C14: create_listings_cache returns the backend its mode names; for a
\* mode that names none it raises ConfigurationError, which is not
\* KeyError, and constructs nothing.
C14_Factory ==
    /\ mode \in CacheTypes => error = "none" /\ cache_type = mode
    /\ mode \notin CacheTypes =>
          error = "ConfigurationError" /\ cache_type = "NONE"

\* ========================== a second cache object (SpecPair, SpecTwin)
\* The first object (the variables of Spec) is the source; `other` is a
\* cache built from it: by calling what __reduce__ returns (link =
\* "rebuilt"), or by constructing MemoryListingsCache(expiry_time,
\* max_paths) anew at the moment the source is cleared (link = "twin").
MaxRebuiltWrites == 1
MaxRebuilds == 2

Source ==
    [cache_type |-> cache_type, expiry_time |-> expiry_time,
     max_paths |-> max_paths, directory |-> directory,
     cache |-> _cache, times |-> _times, q |-> _q, writes |-> 0, nth |-> 0]

\* o.__reduce__() : the class and the arguments to call it with
ReduceOf(o) ==
    CASE o.cache_type = "DISABLED" -> [cls |-> "DISABLED", args |-> <<>>]
      [] o.cache_type = "MEMORY" ->
            [cls |-> "MEMORY", args |-> <<o.expiry_time, o.max_paths>>]
      [] o.cache_type = "FILE" ->
            [cls |-> "FILE", args |-> <<o.expiry_time, o.directory>>]

\* r.cls(*r.args) : the __init__ of each class
Construct(r) ==
    LET new == [cache_type |-> r.cls, expiry_time |-> None,
                max_paths |-> None, directory |-> NoDir,
                cache |-> <<>>, times |-> <<>>, q |-> <<>>,
                \* not fields: the calls received, the objects built before
                writes |-> 0, nth |-> 0]
    IN  CASE r.cls = "DISABLED" -> new
          [] r.cls = "MEMORY" ->
                [new EXCEPT !.expiry_time = r.args[1], !.max_paths = r.args[2]]
          [] r.cls = "FILE" ->
                [new EXCEPT !.expiry_time = r.args[1],
                            !.directory = DirOf(r.args[2], r.args[1])]

\* the memory fields of the second object; its expiry_time and max_paths
\* are those of the source (Construct copies them), which the memory
\* operators read
Oth == [cache |-> other.cache, times |-> other.times, q |-> other.q]
SetOther(s) ==
    [other EXCEPT !.cache = s.cache, !.times = s.times, !.q = s.q]
\* the rows a file object addresses: one store per directory
RowsOf(o) == IF o.directory = directory THEN disk ELSE disk2

\* how many times the source has been reconstructed
Rebuilds == IF link = "rebuilt" THEN other.nth ELSE 0

PairFrame == UNCHANGED <<cfgVars, dret, histVars, retryVars, raceVars>>

\* ---- calls on the source alone
SrcSet(k, v) ==
    /\ link \in {"none", "rebuilt"}
    /\ \/ /\ cache_type = "MEMORY"
          /\ Install(SetItem(Self, now, k, v))
          /\ UNCHANGED disk
       \/ /\ cache_type = "FILE"
          /\ disk' = FileSetItem(disk, now, k, v)
          /\ UNCHANGED memVars
       \/ /\ cache_type = "DISABLED"
          /\ UNCHANGED <<memVars, disk>>
    /\ UNCHANGED <<now, pairVars>>
    /\ PairFrame

SrcGet(k) ==
    /\ link \in {"none", "rebuilt"}
    /\ cache_type = "MEMORY"
    /\ Install(GetItem(Self, now, k).s)
    /\ UNCHANGED <<now, disk, pairVars>>
    /\ PairFrame

SrcDel(k) ==
    /\ link \in {"none", "rebuilt"}
    /\ \/ /\ cache_type = "MEMORY"
          /\ Install(DelItem(Self, k).s)
          /\ UNCHANGED disk
       \/ /\ cache_type = "FILE"
          /\ disk' = FileDelItem(disk, now, k).d
          /\ UNCHANGED memVars
       \/ /\ cache_type = "DISABLED"
          /\ UNCHANGED <<memVars, disk>>
    /\ UNCHANGED <<now, pairVars>>
    /\ PairFrame

SrcClear ==
    /\ link \in {"none", "rebuilt"}
    /\ \/ /\ cache_type = "MEMORY"
          /\ Install(ClearCache(Self))
          /\ UNCHANGED disk
       \/ /\ cache_type = "FILE"
          /\ disk' = FileClear(disk)
          /\ UNCHANGED memVars
       \/ /\ cache_type = "DISABLED"
          /\ UNCHANGED <<memVars, disk>>
    /\ UNCHANGED <<now, pairVars>>
    /\ PairFrame

\* the clock advances before the reconstruction and in SpecTwin
PairTick ==
    /\ link # "rebuilt"
    /\ expiry_time # None
    /\ now < MaxTime
    /\ now' = now + 1
    /\ UNCHANGED <<memVars, disk, pairVars>>
    /\ PairFrame

\* ---- reconstruction: cls, args = source.__reduce__(); cls(*args)
Rebuild ==
    /\ link \in {"none", "rebuilt"}
    /\ cache_type \in CacheTypes
    /\ Rebuilds < MaxRebuilds
    /\ other' = [Construct(ReduceOf(Source)) EXCEPT !.nth = Rebuilds + 1]
    /\ link' = "rebuilt"
    /\ UNCHANGED <<memVars, now, disk, disk2>>
    /\ PairFrame

\* rebuilt[k] = v
RebuiltSet(k, v) ==
    /\ link = "rebuilt"
    /\ other.writes < MaxRebuiltWrites
    /\ \/ /\ other.cache_type = "MEMORY"
          /\ other' = [SetOther(SetItem(Oth, now, k, v))
                          EXCEPT !.writes = other.writes + 1]
          /\ UNCHANGED <<disk, disk2>>
       \/ /\ other.cache_type = "FILE"
          /\ other' = [other EXCEPT !.writes = other.writes + 1]
          /\ LET rows == StoreSet(RowsOf(other), now, k, v, other.expiry_time)
             IN  IF other.directory = directory
                 THEN disk' = rows /\ UNCHANGED disk2
                 ELSE disk2' = rows /\ UNCHANGED disk
       \/ /\ other.cache_type = "DISABLED"
          /\ other' = [other EXCEPT !.writes = other.writes + 1]
          /\ UNCHANGED <<disk, disk2>>
    /\ UNCHANGED <<memVars, now, link>>
    /\ PairFrame

\* ---- source.clear() while a new MemoryListingsCache(expiry_time,
\* max_paths) is constructed; from then on both receive the same calls
ClearTwin ==
    /\ link = "none"
    /\ cache_type = "MEMORY"
    /\ Install(ClearCache(Self))
    /\ other' = Construct([cls |-> "MEMORY", args |-> <<expiry_time, max_paths>>])
    /\ link' = "twin"
    /\ UNCHANGED <<now, disk, disk2>>
    /\ PairFrame

TwinFrame == UNCHANGED <<now, disk, disk2, link>> /\ PairFrame

TwinSet(k, v) ==
    /\ link = "twin"
    /\ Install(SetItem(Self, now, k, v))
    /\ other' = SetOther(SetItem(Oth, now, k, v))
    /\ TwinFrame

\* get and contains change the fields alike
TwinGet(k) ==
    /\ link = "twin"
    /\ Install(GetItem(Self, now, k).s)
    /\ other' = SetOther(GetItem(Oth, now, k).s)
    /\ TwinFrame

TwinDel(k) ==
    /\ link = "twin"
    /\ Install(DelItem(Self, k).s)
    /\ other' = SetOther(DelItem(Oth, k).s)
    /\ TwinFrame

TwinIter ==
    /\ link = "twin"
    /\ Install(Iterate(Self).s)
    /\ other' = SetOther(Iterate(Oth).s)
    /\ TwinFrame

PairNext ==
    \/ \E k \in Keys, v \in Values : SrcSet(k, v)
    \/ \E k \in Keys : SrcGet(k)
    \/ \E k \in Keys : SrcDel(k)
    \/ SrcClear
    \/ PairTick
    \/ Rebuild
    \/ \E k \in Keys, v \in Values : RebuiltSet(k, v)

SpecPair == Init /\ [][PairNext]_vars

TwinNext ==
    \/ \E k \in Keys, v \in Values : SrcSet(k, v)
    \/ \E k \in Keys : SrcGet(k)
    \/ \E k \in Keys : SrcDel(k)
    \/ SrcClear
    \/ PairTick
    \/ ClearTwin
    \/ \E k \in Keys, v \in Values : TwinSet(k, v)
    \/ \E k \in Keys : TwinGet(k)
    \/ \E k \in Keys : TwinDel(k)
    \/ TwinIter

SpecTwin == Init /\ [][TwinNext]_vars

\* What a caller would observe on the second object in the current state
OtherHas(k) ==
    CASE other.cache_type = "MEMORY" -> Contains(Oth, now, k).ret
      [] other.cache_type = "FILE" -> FileContains(RowsOf(other), now, k)
      [] other.cache_type = "DISABLED" -> DisabledContains(k).found
OtherLen ==
    CASE other.cache_type = "MEMORY" -> LenCache(Oth)
      [] other.cache_type = "FILE" -> FileLen(RowsOf(other))
      [] other.cache_type = "DISABLED" -> DisabledLen.n
Config(o) == <<o.cache_type, o.expiry_time, o.max_paths, o.directory>>

\* C12: every backend: a cache rebuilt from the __reduce__ of a source has
\* length 0 and contains no key until it is written itself, whatever the
\* source holds and whatever is written to the source afterwards, also
\* when the source has been reconstructed before.
C12_RebuiltStartsEmpty ==
    link = "rebuilt" /\ other.writes = 0 =>
        /\ OtherLen = 0
        /\ \A k \in Keys : ~OtherHas(k)

\* C13: every backend: the rebuilt cache has the class, expiry_time,
\* max_paths and storage directory of the source, and rebuilding the
\* rebuilt cache gives that configuration again.
C13_ConfigPreserved ==
    link = "rebuilt" =>
        /\ Config(other) = Config(Source)
        /\ Config(Construct(ReduceOf(other))) = Config(other)

\* C20: memory backend: after clear() the cache and a newly constructed
\* MemoryListingsCache(expiry_time, max_paths) answer every later
\* sequence of set, get, contains, delete, iteration and clock advance
\* alike: same values, same KeyErrors, same contains, len and keys.
C20_ClearIsFresh ==
    link = "twin" =>
        /\ \A k \in Keys :
              /\ Seen(Self, k) = Seen(Oth, k)
              /\ Has(k) = Contains(Oth, now, k).ret
        /\ LenCache(Self) = LenCache(Oth)
        /\ Iterate(Self).out = Iterate(Oth).out

\* ============================ the store under contention (SpecRetry)
\* Every call of FileListingsCache on its diskcache.Cache asks for
\* retry=True (get at __getitem__ and __contains__, set at __setitem__;
\* del uses the default of Cache.__delitem__, which is retry=True).  The
\* store runs a call in a transaction it can begin only while no other
\* process holds its lock; an attempt made while the lock is held times
\* out, and with retry=True the store attempts again, with no count of
\* attempts and no limit; with retry=False it would raise Timeout.
RetryFrame ==
    UNCHANGED <<cfgVars, memVars, now, dret, histVars, pairVars, raceVars>>

\* cache[k], k in cache, cache[k] = v, del cache[k] : the call is made
FileCall(o, k, v) ==
    /\ cache_type = "FILE"
    /\ call = Idle
    /\ call' = [op |-> o, key |-> k, val |-> v, retry |-> TRUE, at |-> "begin"]
    /\ UNCHANGED <<disk, busy>>
    /\ RetryFrame

\* the transaction begins while the lock is free: the call runs and returns
Transact ==
    /\ call.at = "begin"
    /\ ~busy
    /\ disk' = CASE call.op = "set" -> FileSetItem(disk, now, call.key, call.val)
                 [] call.op = "del" -> FileDelItem(disk, now, call.key).d
                 [] call.op \in {"get", "contains"} -> disk
    /\ call' = Idle
    /\ UNCHANGED busy
    /\ RetryFrame

\* the attempt is made while the lock is held: it times out
TimeOut ==
    /\ call.at = "begin"
    /\ busy
    /\ call' = [call EXCEPT !.at = "timeout"]
    /\ UNCHANGED <<disk, busy>>
    /\ RetryFrame

\* after a timeout: `if retry: continue`, else raise Timeout
Retry ==
    /\ call.at = "timeout"
    /\ call' = IF call.retry THEN [call EXCEPT !.at = "begin"] ELSE Idle
    /\ UNCHANGED <<disk, busy>>
    /\ RetryFrame

\* another process takes or releases the lock of the store
Seize ==
    /\ cache_type = "FILE"
    /\ ~busy
    /\ busy' = TRUE
    /\ UNCHANGED <<disk, call>>
    /\ RetryFrame

Release ==
    /\ busy
    /\ busy' = FALSE
    /\ UNCHANGED <<disk, call>>
    /\ RetryFrame

CallStep == Transact \/ TimeOut \/ Retry

RetryNext ==
    \/ \E k \in Keys : FileCall("get", k, <<>>)
    \/ \E k \in Keys : FileCall("contains", k, <<>>)
    \/ \E k \in Keys, v \in Values : FileCall("set", k, v)
    \/ \E k \in Keys : FileCall("del", k, <<>>)
    \/ Transact
    \/ TimeOut
    \/ Retry
    \/ Seize
    \/ Release

\* The caller's thread keeps running its call (weak fairness of its
\* steps); nothing obliges the other process to release the lock.
SpecRetry == Init /\ [][RetryNext]_vars /\ WF_vars(CallStep)

\* C11: file backend: every get, contains, set and delete returns or
\* raises after a bounded number of attempts, also while the store times
\* out on every attempt.
C11_CallsTerminate == (call # Idle) ~> (call = Idle)

\* ================== two callers of one MemoryListingsCache (SpecRace)
\* Each caller runs __getitem__ or __setitem__ one statement at a time;
\* between two statements the other caller may run.  With `atomic` the
\* callers take one lock per cache around every call.
MaxSetups == 1

\* (variant: the expired value is left in the value store)
GetStmtKeepsExpired(s, th) ==
    CASE th.pc = "check" ->
            [s |-> s,
             th |-> [th EXCEPT !.pc =
                        IF expiry_time # None
                              /\ Expired(TimesGet(s.times, th.key), now)
                        THEN "del" ELSE "touch"]]
      [] th.pc = "del" ->
            IF DictHas(s.cache, th.key)
            THEN [s |-> s, th |-> [th EXCEPT !.pc = "touch"]]
            ELSE [s |-> s, th |-> [th EXCEPT !.pc = "done", !.raised = TRUE]]
      [] th.pc = "touch" ->
            [s |-> IF Truthy(max_paths) THEN QCall(s, th.key) ELSE s,
             th |-> [th EXCEPT !.pc = "return"]]
      [] th.pc = "return" ->
            IF DictHas(s.cache, th.key)
            THEN [s |-> s, th |-> [th EXCEPT !.pc = "done",
                                             !.ret = DictGet(s.cache, th.key)]]
            ELSE [s |-> s, th |-> [th EXCEPT !.pc = "done", !.raised = TRUE]]

\* one statement of MemoryListingsCache.__getitem__ on the fields s:
\*   check  : if self._expiry_time is not None and
\*            self._times.get(item, 0) - time.time() < -self._expiry_time
\*   del    : del self._cache[item]
\*   touch  : if self._max_paths: self._q(item)
\*   return : return self._cache[item]
GetStmt(s, th) ==
    CASE th.pc = "check" ->
            [s |-> s,
             th |-> [th EXCEPT !.pc =
                        IF expiry_time # None
                              /\ Expired(TimesGet(s.times, th.key), now)
                        THEN "del" ELSE "touch"]]
      [] th.pc = "del" ->
            IF DictHas(s.cache, th.key)
            THEN [s |-> [s EXCEPT !.cache = DictPop(s.cache, th.key)],
                  th |-> [th EXCEPT !.pc = "touch"]]
            ELSE [s |-> s, th |-> [th EXCEPT !.pc = "done", !.raised = TRUE]]
      [] th.pc = "touch" ->
            [s |-> IF Truthy(max_paths) THEN QCall(s, th.key) ELSE s,
             th |-> [th EXCEPT !.pc = "return"]]
      [] th.pc = "return" ->
            IF DictHas(s.cache, th.key)
            THEN [s |-> s, th |-> [th EXCEPT !.pc = "done",
                                             !.ret = DictGet(s.cache, th.key)]]
            ELSE [s |-> s, th |-> [th EXCEPT !.pc = "done", !.raised = TRUE]]

\* one statement of MemoryListingsCache.__setitem__ :
\*   touch : if self._max_paths: self._q(key)
\*   store : self._cache[key] = value
\*   stamp : if self._expiry_time is not None: self._times[key] = time.time()
SetStmt(s, th) ==
    CASE th.pc = "touch" ->
            [s |-> IF Truthy(max_paths) THEN QCall(s, th.key) ELSE s,
             th |-> [th EXCEPT !.pc = "store"]]
      [] th.pc = "store" ->
            [s |-> [s EXCEPT !.cache = DictSet(s.cache, th.key, th.val)],
             th |-> [th EXCEPT !.pc = "stamp"]]
      [] th.pc = "stamp" ->
            [s |-> IF expiry_time # None
                   THEN [s EXCEPT !.times = TimesSet(s.times, th.key, now)]
                   ELSE s,
             th |-> [th EXCEPT !.pc = "done"]]

FirstPc(o) == IF o = "get" THEN "check" ELSE "touch"
Called(o, k, v) == [NoThread EXCEPT !.op = o, !.key = k, !.val = v, !.pc = FirstPc(o)]
Calls ==
    {Called("get", k, <<>>) : k \in Keys}
        \cup {Called("set", k, v) : k \in Keys, v \in Values}
\* the caller is between two statements of its call
Inside(c) == threads[c].pc \notin {"idle", "done", FirstPc(threads[c].op)}
AllIdle == \A c \in Callers : threads[c].pc = "idle"
AllDone == \A c \in Callers : threads[c].pc = "done"

RaceFrame == UNCHANGED <<cfgVars, disk, dret, histVars, pairVars, retryVars>>

\* cache[k] = v by a single caller, before the two calls
RaceSetup(k, v) ==
    /\ cache_type = "MEMORY"
    /\ AllIdle
    /\ setups < MaxSetups
    /\ Install(SetItem(Self, now, k, v))
    /\ setups' = setups + 1
    /\ UNCHANGED <<now, threads, start, atomic>>
    /\ RaceFrame

RaceTick ==
    /\ cache_type = "MEMORY"
    /\ AllIdle
    /\ expiry_time # None
    /\ now < MaxTime
    /\ now' = now + 1
    /\ UNCHANGED <<memVars, raceVars>>
    /\ RaceFrame

\* the two callers make their calls
Begin(c1, c2) ==
    /\ cache_type = "MEMORY"
    /\ AllIdle
    /\ threads' = [c \in Callers |-> IF c = 1 THEN c1 ELSE c2]
    /\ start' = Self
    /\ UNCHANGED <<memVars, now, atomic, setups>>
    /\ RaceFrame

\* caller c runs its next statement
Step(c) ==
    /\ threads[c].pc \notin {"idle", "done"}
    /\ atomic => \A d \in Callers \ {c} : ~Inside(d)
    /\ LET r == IF threads[c].op = "get"
                THEN GetStmt(Self, threads[c])
                ELSE SetStmt(Self, threads[c])
       IN  /\ Install(r.s)
           /\ threads' = [threads EXCEPT ![c] = r.th]
    /\ UNCHANGED <<now, start, atomic, setups>>
    /\ RaceFrame

RaceNext ==
    \/ \E k \in Keys, v \in Values : RaceSetup(k, v)
    \/ RaceTick
    \/ \E c1 \in Calls, c2 \in Calls : Begin(c1, c2)
    \/ \E c \in Callers : Step(c)

RaceInit ==
    /\ mode = "MEMORY"
    /\ error = CacheMap(mode).raised
    /\ cache_type = CacheMap(mode).cls
    /\ MemInit
    /\ NoPair
    /\ NoRetry
    /\ NoRace
    /\ atomic \in BOOLEAN
    /\ now = Epoch
    /\ disk = <<>>
    /\ dret = NoCall
    /\ hist = NoHistory
    /\ touched = <<>>
    /\ setRun = <<>>

SpecRace == RaceInit /\ [][RaceNext]_vars

\* the calls run one after the other, a first, from the fields at `start`
Apply(s, th) ==
    IF th.op = "get"
    THEN GetItem(s, now, th.key)
    ELSE [s |-> SetItem(s, now, th.key, th.val), raised |-> FALSE, val |-> <<>>]
SerialOrder(a, b) ==
    LET r1 == Apply(start, threads[a])
        r2 == Apply(r1.s, threads[b])
    IN  [s |-> r2.s,
         res |-> [c \in Callers |-> IF c = a THEN <<r1.raised, r1.val>>
                                             ELSE <<r2.raised, r2.val>>]]
Outcome ==
    [s |-> Self,
     res |-> [c \in Callers |-> <<threads[c].raised, threads[c].ret>>]]
Serializable == Outcome \in {SerialOrder(1, 2), SerialOrder(2, 1)}

\* C19: memory backend, two callers: when every call runs under one lock
\* per cache, the fields and the results after the two calls are those of
\* the calls run one after the other in some order; without the lock an
\* interleaving of a set(k, v) with a get(k) of an expired entry ends in
\* a state no order gives (C19_Witness).
C19_AtomicIsSerial == atomic /\ AllDone => Serializable
\* without the lock: the set has completed, the get that saw the old
\* entry expired has removed the value just written
C19_Witness ==
    /\ ~atomic /\ AllDone /\ ~Serializable
    /\ \E c, d \in Callers :
          /\ threads[c].op = "set" /\ threads[d].op = "get"
          /\ threads[c].key = threads[d].key
          /\ DictHas(start.cache, threads[c].key)
          /\ Expired(TimesGet(start.times, threads[c].key), now)
          /\ ~DictHas(_cache, threads[c].key)
          /\ TimesGet(_times, threads[c].key) = now

====
